---- MODULE Spec2Model ----
(***************************************************************************)
(* The fuzzy-phids backend: the Insect, Order and User repositories over   *)
(* the relational store of fuzzy-schema.sql.  Every repository method is   *)
(* an operator from the tables and the call's arguments to the set of its  *)
(* possible outcomes (new table, new sequence value, result or error); an  *)
(* action runs one call and records it in `last`.                          *)
(*                                                                         *)
(* Text values whose characters matter (species, passwords) are sequences  *)
(* of one-character strings.  Prices and totals are whole currency units.  *)
(***************************************************************************)
EXTENDS Integers, Sequences, FiniteSets, TLC

VARIABLES insects, nextInsectId, users, nextUserId, orders, nextOrderId, last,
          inflight

vars == <<insects, nextInsectId, users, nextUserId, orders, nextOrderId, last, inflight>>

(***************************************************************************)
(* Bounds of the model.                                                    *)
(***************************************************************************)
\* Values the two id sequences (insects, users) may hand out in one behaviour.
MaxInserts == 2

(***************************************************************************)
(* Values the calls are made with.                                         *)
(***************************************************************************)
SpeciesValues == { <<"A", "b">>, <<"b">> }
PriceValues == { 5, 10 }
SpeciesFilterValues == { <<"a">>, <<"_">> }
SpeciesLikeValues == { <<"a">> }
UsernameValues == { <<"a">>, <<"b">> }
PasswordValues == { <<>>, <<"p">> }
EmailValues == { "a@x" }

(***************************************************************************)
(* Results and errors.                                                     *)
(***************************************************************************)
NoValue == <<>>

Ok(v) == [err |-> "none", msg |-> <<>>, val |-> v]

Err(kind, msg) == [err |-> kind, msg |-> msg, val |-> NoValue]

Outcome(tbl, next, res) == [tbl |-> tbl, next |-> next, res |-> res]

\* A JavaScript object: a function from the keys that are present.
NoKeys == <<>>

OptField(k, V) == { NoKeys } \cup { k :> v : v \in V }

\* `if (x)` on a string: the empty string is falsy.
Truthy(s) == s # <<>>

(***************************************************************************)
(* Text: case folding, ordering and LIKE patterns of the store.            *)
(***************************************************************************)
Lower(c) == IF c = "A" THEN "a" ELSE IF c = "B" THEN "b" ELSE c

LowerStr(s) == [i \in 1..Len(s) |-> Lower(s[i])]

CharCode(c) ==
  CASE c = "%" -> 37
    [] c = "A" -> 65
    [] c = "B" -> 66
    [] c = "_" -> 95
    [] c = "a" -> 97
    [] c = "b" -> 98
    [] OTHER -> 127

RECURSIVE StrLeq(_, _)
StrLeq(s, t) ==
  IF s = <<>> THEN TRUE
  ELSE IF t = <<>> THEN FALSE
  ELSE IF CharCode(Head(s)) < CharCode(Head(t)) THEN TRUE
  ELSE IF CharCode(Head(s)) > CharCode(Head(t)) THEN FALSE
  ELSE StrLeq(Tail(s), Tail(t))

\* s LIKE p: % matches any run of characters, _ any one character.
RECURSIVE Like(_, _)
Like(s, p) ==
  IF p = <<>> THEN s = <<>>
  ELSE IF Head(p) = "%" THEN Like(s, Tail(p)) \/ (s # <<>> /\ Like(Tail(s), p))
  ELSE IF s = <<>> THEN FALSE
  ELSE IF Head(p) = "_" THEN Like(Tail(s), Tail(p))
  ELSE Head(s) = Head(p) /\ Like(Tail(s), Tail(p))

ILike(s, p) == Like(LowerStr(s), LowerStr(p))

\* ORDER BY: every arrangement of the rows that is ascending in the key, leq
\* being the pairs of rows in key order.
OrderBy(rows, leq) ==
  LET n == Cardinality(rows)
  IN { s \in [1..n -> rows] :
         /\ \A i, j \in 1..n : i # j => s[i] # s[j]
         /\ \A i, j \in 1..n : i < j => <<s[i], s[j]>> \in leq }

(***************************************************************************)
(* Partial updates.                                                        *)
(***************************************************************************)
\* The order in which a payload's keys are iterated.
KeyOrder == <<"species", "price", "url_image", "username", "password", "isAdmin", "email">>

\* helpers/sql: the SET clause (column, placeholder index) and its values.
sqlForPartialUpdate(data, columnNameOf) ==
  LET keys == SelectSeq(KeyOrder, LAMBDA k : k \in DOMAIN data)
      kept == SelectSeq(keys, LAMBDA k : k \in DOMAIN columnNameOf)
  IN IF keys = <<>>
     THEN [err |-> "BadRequestError", setCols |-> <<>>, values |-> <<>>]
     ELSE [err |-> "none",
           setCols |-> [i \in 1..Len(kept) |-> <<columnNameOf[kept[i]], i>>],
           values |-> [i \in 1..Len(kept) |-> data[kept[i]]]]

RECURSIVE ApplySet(_, _, _)
ApplySet(row, setCols, values) ==
  IF setCols = <<>> THEN row
  ELSE ApplySet([row EXCEPT ![Head(setCols)[1]] = values[Head(setCols)[2]]],
                Tail(setCols), values)

\* The CHECK (column >= 0) constraints of a table hold of the row.
RowOk(r, nonNegative) == \A c \in nonNegative : r[c] >= 0

\* UPDATE table SET setCols WHERE (row in hit) RETURNING ...: one statement,
\* applied to every matching row or, on an error, to none.
SqlUpdate(table, columns, nonNegative, hit, setCols, values) ==
  IF setCols = <<>>
  THEN [err |-> "syntax error", tbl |-> table, rows |-> {}]
  ELSE IF \E i \in 1..Len(setCols) : setCols[i][1] \notin columns
  THEN [err |-> "undefined column", tbl |-> table, rows |-> {}]
  ELSE LET new == { ApplySet(r, setCols, values) : r \in hit }
       IN IF \E r \in new : ~RowOk(r, nonNegative)
          THEN [err |-> "constraint violation", tbl |-> table, rows |-> {}]
          ELSE [err |-> "none", tbl |-> (table \ hit) \cup new, rows |-> new]

(***************************************************************************)
(* The insects table and the Insect repository.                            *)
(***************************************************************************)
InsectColumns == { "id", "species", "price", "url_image" }

\* CHECK (price >= 0)
InsectNonNegative == { "price" }

InsectRowOk(r) == RowOk(r, InsectNonNegative)

\* A faulty duplicate check: the pattern match of findAll in place of equality.
InsectSelectBySpeciesLike(tbl, species) ==
  { r \in tbl : ILike(r.species, <<"%">> \o species \o <<"%">>) }

InsectSelectBySpecies(tbl, species) == { r \in tbl : r.species = species }

\* A faulty insert: the id is the smallest one no stored row has, in place of
\* the next value of the SERIAL sequence.
Insect_create_ReuseId(tbl, next, data) ==
  IF InsectSelectBySpecies(tbl, data.species) # {}
  THEN { Outcome(tbl, next, Err("BadRequestError", <<"Duplicate insect: ", data.species>>)) }
  ELSE LET free == { i \in 1..next : \A r \in tbl : r.id # i }
           row == [id |-> CHOOSE i \in free : \A j \in free : i <= j,
                   species |-> data.species, price |-> data.price,
                   url_image |-> data.url_image]
       IN IF InsectRowOk(row)
          THEN { Outcome(tbl \cup {row}, next + 1, Ok(row)) }
          ELSE { Outcome(tbl, next + 1, Err("DatabaseError", <<"constraint violation">>)) }

\* A stricter INSERT: one that a UNIQUE constraint on species guards.
InsectInsertUnique(tbl, next, data) ==
  LET row == [id |-> next, species |-> data.species, price |-> data.price,
              url_image |-> data.url_image]
  IN IF InsectRowOk(row) /\ InsectSelectBySpecies(tbl, data.species) = {}
     THEN { Outcome(tbl \cup {row}, next + 1, Ok(row)) }
     ELSE { Outcome(tbl, next + 1, Err("DatabaseError", <<"constraint violation">>)) }

\* INSERT INTO insects ... RETURNING: the second statement of create.
InsectInsert(tbl, next, data) ==
  LET row == [id |-> next, species |-> data.species, price |-> data.price,
              url_image |-> data.url_image]
  IN IF InsectRowOk(row)
     THEN { Outcome(tbl \cup {row}, next + 1, Ok(row)) }
     ELSE { Outcome(tbl, next + 1, Err("DatabaseError", <<"constraint violation">>)) }

InsectDuplicate(data) == Err("BadRequestError", <<"Duplicate insect: ", data.species>>)

Insect_create(tbl, next, data) ==
  IF InsectSelectBySpecies(tbl, data.species) # {}
  THEN { Outcome(tbl, next, InsectDuplicate(data)) }
  ELSE InsectInsert(tbl, next, data)

InsectWhere(r, f) ==
  /\ "minPrice" \in DOMAIN f => r.price >= f.minPrice
  /\ "maxPrice" \in DOMAIN f => r.price <= f.maxPrice
  /\ ("species" \in DOMAIN f /\ Truthy(f.species))
        => ILike(r.species, <<"%">> \o f.species \o <<"%">>)

BySpecies(rows) == { p \in rows \X rows : StrLeq(p[1].species, p[2].species) }

Insect_findAll(tbl, f) ==
  IF "minPrice" \in DOMAIN f /\ "maxPrice" \in DOMAIN f /\ f.minPrice > f.maxPrice
  THEN { Outcome(tbl, 0, Err("BadRequestError", <<"Min price cannot be greater than max">>)) }
  ELSE { Outcome(tbl, 0, Ok(s)) : s \in LET rows == { r \in tbl : InsectWhere(r, f) }
                                     IN OrderBy(rows, BySpecies(rows)) }

Insect_get(tbl, id) ==
  LET rows == { r \in tbl : r.id = id }
  IN IF rows = {}
     THEN { Outcome(tbl, 0, Err("NotFoundError", <<"No insect: ", id>>)) }
     ELSE { Outcome(tbl, 0, Ok(r)) : r \in rows }

\* A faulty allow-list: species may be written too.
InsectUpdateColumnsWithSpecies ==
  [species |-> "species", price |-> "price", url_image |-> "url_image"]

InsectUpdateColumns == [price |-> "price", url_image |-> "url_image"]

\* A faulty update: it reads result.rows[1], so an update of one row is written
\* and then reported as NotFoundError.
Insect_update_SecondRow(tbl, id, data) ==
  LET q == sqlForPartialUpdate(data, InsectUpdateColumns)
  IN IF q.err # "none"
     THEN { Outcome(tbl, 0, Err(q.err, <<"No data">>)) }
     ELSE LET u == SqlUpdate(tbl, InsectColumns, InsectNonNegative,
                             { r \in tbl : r.id = id }, q.setCols, q.values)
          IN IF u.err # "none"
             THEN { Outcome(tbl, 0, Err("DatabaseError", <<u.err>>)) }
             ELSE IF Cardinality(u.rows) < 2
             THEN { Outcome(u.tbl, 0, Err("NotFoundError", <<"No insect: ", id>>)) }
             ELSE { Outcome(u.tbl, 0, Ok(r)) : r \in u.rows }

Insect_update(tbl, id, data) ==
  LET q == sqlForPartialUpdate(data, InsectUpdateColumns)
  IN IF q.err # "none"
     THEN { Outcome(tbl, 0, Err(q.err, <<"No data">>)) }
     ELSE LET u == SqlUpdate(tbl, InsectColumns, InsectNonNegative,
                             { r \in tbl : r.id = id }, q.setCols, q.values)
          IN IF u.err # "none"
             THEN { Outcome(tbl, 0, Err("DatabaseError", <<u.err>>)) }
             ELSE IF u.rows = {}
             THEN { Outcome(u.tbl, 0, Err("NotFoundError", <<"No insect: ", id>>)) }
             ELSE { Outcome(u.tbl, 0, Ok(r)) : r \in u.rows }

Insect_remove(tbl, id) ==
  LET rows == { r \in tbl : r.id = id }
  IN IF rows = {}
     THEN { Outcome(tbl, 0, Err("NotFoundError", <<"No insect: ", id>>)) }
     ELSE { Outcome(tbl \ rows, 0, Ok(NoValue)) }

(***************************************************************************)
(* Calls on the Insect repository.                                         *)
(***************************************************************************)
InsectData ==
  { [species |-> s, price |-> p, url_image |-> u] :
      s \in SpeciesValues, p \in PriceValues, u \in { "u1" } }

InsectFilters ==
  { a @@ b @@ c @@ d :
      a \in OptField("minPrice", PriceValues),
      b \in OptField("maxPrice", PriceValues),
      c \in OptField("species", SpeciesFilterValues),
      d \in OptField("speciesLike", SpeciesLikeValues) }

InsectPatches ==
  { a @@ b @@ c :
      a \in OptField("species", { <<"A">> }),
      b \in OptField("price", { 10 }),
      c \in OptField("url_image", { "u2" }) }

InsectIds == 1..MaxInserts

InsertsDone == (nextInsectId - 1) + (nextUserId - 1)

Call(op, arg, res) == [op |-> op, arg |-> arg, res |-> res]

InsectCreate ==
  /\ \E data \in InsectData : \E o \in Insect_create(insects, nextInsectId, data) :
       /\ o.next = nextInsectId \/ InsertsDone < MaxInserts
       /\ insects' = o.tbl
       /\ nextInsectId' = o.next
       /\ last' = Call("Insect.create", data, o.res)
  /\ UNCHANGED <<users, nextUserId, orders, nextOrderId, inflight>>

InsectFindAll ==
  /\ \E f \in InsectFilters : \E o \in Insect_findAll(insects, f) :
       last' = Call("Insect.findAll", f, o.res)
  /\ UNCHANGED <<insects, nextInsectId, users, nextUserId, orders, nextOrderId, inflight>>

InsectGet ==
  /\ \E id \in InsectIds : \E o \in Insect_get(insects, id) :
       last' = Call("Insect.get", [id |-> id], o.res)
  /\ UNCHANGED <<insects, nextInsectId, users, nextUserId, orders, nextOrderId, inflight>>

InsectUpdate ==
  /\ \E id \in InsectIds, data \in InsectPatches : \E o \in Insect_update(insects, id, data) :
       /\ insects' = o.tbl
       /\ last' = Call("Insect.update", [id |-> id, data |-> data], o.res)
  /\ UNCHANGED <<nextInsectId, users, nextUserId, orders, nextOrderId, inflight>>

InsectRemove ==
  /\ \E id \in InsectIds : \E o \in Insect_remove(insects, id) :
       /\ insects' = o.tbl
       /\ last' = Call("Insect.remove", [id |-> id], o.res)
  /\ UNCHANGED <<nextInsectId, users, nextUserId, orders, nextOrderId, inflight>>

(***************************************************************************)
(* The users table, credential hashing and the User repository.            *)
(***************************************************************************)
UserColumns == { "id", "username", "password", "email", "is_admin", "orders" }

\* No column of users has a CHECK (column >= 0); the CHECK on email holds of
\* every value of EmailValues.
UserNonNegative == { }

UserRowOk(r) == RowOk(r, UserNonNegative)

\* bcrypt.hash: the scheme's prefix followed by the digest, which stands for
\* the password it was computed from.
BcryptHash(password) == <<"$2b$">> \o password

\* bcrypt.compare: false for a stored value that is no bcrypt hash.
BcryptCompare(password, stored) ==
  /\ stored # <<>>
  /\ Head(stored) = "$2b$"
  /\ Tail(stored) = password

User_authenticate(tbl, username, password) ==
  LET rows == { r \in tbl : r.username = username }
  IN IF rows = {}
     THEN { Outcome(tbl, 0, Err("UnauthorizedError", <<"User not found">>)) }
     ELSE { IF ~BcryptCompare(password, r.password)
            THEN Outcome(tbl, 0, Err("UnauthorizedError", <<"Wrong password">>))
            ELSE Outcome(tbl, 0, Ok([username |-> username, email |-> r.email,
                                     isAdmin |-> r.is_admin]))
            : r \in rows }

User_register(tbl, next, data) ==
  IF { r \in tbl : r.username = data.username } # {}
  THEN { Outcome(tbl, next, Err("BadRequestError", <<"Duplicate username: ", data.username>>)) }
  ELSE LET row == [id |-> next, username |-> data.username,
                   password |-> BcryptHash(data.password), email |-> data.email,
                   is_admin |-> data.isAdmin, orders |-> <<>>]
       IN IF UserRowOk(row)
          THEN { Outcome(tbl \cup {row}, next + 1,
                         Ok([username |-> row.username, password |-> row.password,
                             email |-> row.email, isAdmin |-> row.is_admin])) }
          ELSE { Outcome(tbl, next + 1, Err("DatabaseError", <<"constraint violation">>)) }

ByUsername(rows) == { p \in rows \X rows : StrLeq(p[1].username, p[2].username) }

User_findAll(tbl) ==
  LET Row(r) == [username |-> r.username, password |-> r.password, email |-> r.email,
                 isAdmin |-> r.is_admin, orders |-> r.orders]
  IN { Outcome(tbl, 0, Ok([i \in DOMAIN s |-> Row(s[i])])) :
         s \in OrderBy(tbl, ByUsername(tbl)) }

User_get(tbl, ordersTbl, username) ==
  LET rows == { r \in tbl : r.username = username }
  IN IF rows = {}
     THEN { Outcome(tbl, 0, Err("NotFoundError", <<"No user: ", username>>)) }
     ELSE { Outcome(tbl, 0,
              Ok([id |-> r.id, username |-> r.username, password |-> r.password,
                  email |-> r.email, isAdmin |-> r.is_admin,
                  orders |-> { [id |-> o.id, phone |-> o.phone,
                                delivery_address |-> o.delivery_address,
                                submit_time |-> o.submit_time, items |-> o.items,
                                user_order_id |-> o.user_order_id] :
                               o \in { x \in ordersTbl : x.user_order_id = r.id } }]))
            : r \in rows }

UserUpdateColumns == [username |-> "username", password |-> "password", isAdmin |-> "isAdmin"]

User_update(tbl, username, data) ==
  LET hashed == IF "password" \in DOMAIN data /\ Truthy(data.password)
                THEN [data EXCEPT !["password"] = BcryptHash(@)]
                ELSE data
      q == sqlForPartialUpdate(hashed, UserUpdateColumns)
  IN IF q.err # "none"
     THEN { Outcome(tbl, 0, Err(q.err, <<"No data">>)) }
     ELSE LET u == SqlUpdate(tbl, UserColumns, UserNonNegative,
                             { r \in tbl : r.username = username }, q.setCols, q.values)
          IN IF u.err # "none"
             THEN { Outcome(tbl, 0, Err("DatabaseError", <<u.err>>)) }
             ELSE IF u.rows = {}
             THEN { Outcome(u.tbl, 0, Err("NotFoundError", <<"No user: ", username>>)) }
             ELSE { Outcome(u.tbl, 0, Ok([username |-> r.username, email |-> r.email,
                                          isAdmin |-> r.is_admin])) : r \in u.rows }

User_remove(tbl, username) ==
  LET rows == { r \in tbl : r.username = username }
  IN IF rows = {}
     THEN { Outcome(tbl, 0, Err("NotFoundError", <<"No user: ", username>>)) }
     ELSE { Outcome(tbl \ rows, 0, Ok(NoValue)) }

(***************************************************************************)
(* Calls on the User repository.                                           *)
(***************************************************************************)
UserData ==
  { [username |-> n, password |-> p, email |-> e, isAdmin |-> a] :
      n \in UsernameValues, p \in PasswordValues, e \in EmailValues, a \in BOOLEAN }

UserPatches ==
  { a @@ b @@ c :
      a \in OptField("username", UsernameValues),
      b \in OptField("password", PasswordValues),
      c \in OptField("isAdmin", { TRUE }) }

UserRegister ==
  /\ \E data \in UserData : \E o \in User_register(users, nextUserId, data) :
       /\ o.next = nextUserId \/ InsertsDone < MaxInserts
       /\ users' = o.tbl
       /\ nextUserId' = o.next
       /\ last' = Call("User.register", data, o.res)
  /\ UNCHANGED <<insects, nextInsectId, orders, nextOrderId, inflight>>

UserAuthenticate ==
  /\ \E n \in UsernameValues, p \in PasswordValues : \E o \in User_authenticate(users, n, p) :
       last' = Call("User.authenticate", [username |-> n, password |-> p], o.res)
  /\ UNCHANGED <<insects, nextInsectId, users, nextUserId, orders, nextOrderId, inflight>>

UserFindAll ==
  /\ \E o \in User_findAll(users) : last' = Call("User.findAll", NoValue, o.res)
  /\ UNCHANGED <<insects, nextInsectId, users, nextUserId, orders, nextOrderId, inflight>>

UserGet ==
  /\ \E n \in UsernameValues : \E o \in User_get(users, orders, n) :
       last' = Call("User.get", [username |-> n], o.res)
  /\ UNCHANGED <<insects, nextInsectId, users, nextUserId, orders, nextOrderId, inflight>>

UserUpdate ==
  /\ \E n \in UsernameValues, data \in UserPatches : \E o \in User_update(users, n, data) :
       /\ users' = o.tbl
       /\ last' = Call("User.update", [username |-> n, data |-> data], o.res)
  /\ UNCHANGED <<insects, nextInsectId, nextUserId, orders, nextOrderId, inflight>>

UserRemove ==
  /\ \E n \in UsernameValues : \E o \in User_remove(users, n) :
       /\ users' = o.tbl
       /\ last' = Call("User.remove", [username |-> n], o.res)
  /\ UNCHANGED <<insects, nextInsectId, nextUserId, orders, nextOrderId, inflight>>

(***************************************************************************)
(* JavaScript numbers of Order.getTotal, kept in tenths of a currency unit *)
(* so that a price times 1.10 is exact.                                    *)
(***************************************************************************)
JsNumber(tenths) == [type |-> "number", v |-> tenths]

JsNaN == [type |-> "NaN", v |-> 0]

JsUndefined == [type |-> "undefined", v |-> 0]

\* An element of the items document: an insect id, or an object with a price.
ItemId(id) == [type |-> "number", v |-> id]

ItemObject(price) == [type |-> "object", v |-> price]

\* item.price
PriceOf(item) == IF item.type = "object" THEN JsNumber(10 * item.v) ELSE JsUndefined

\* x * (1 + taxRate), taxRate = 0.10
Taxed(x) == IF x.type = "number" THEN JsNumber((x.v * 11) \div 10) ELSE JsNaN

JsAdd(x, y) ==
  IF x.type = "number" /\ y.type = "number" THEN JsNumber(x.v + y.v) ELSE JsNaN

\* Math.round: to the nearest integer, halves upwards.
MathRound(x) == IF x.type = "number" THEN JsNumber(10 * ((x.v + 5) \div 10)) ELSE JsNaN

(***************************************************************************)
(* The orders table and the Order repository.                              *)
(***************************************************************************)
\* The duplicate check's WHERE clause, as written.
OrderDuplicateWhere == <<"user_order_id = $1", ",", "submit_time = $2">>

\* Conditions of a WHERE clause are joined by AND or OR.
SqlWhereOk(clause) ==
  \A i \in 1..Len(clause) : i % 2 = 0 => clause[i] \in { "AND", "OR" }

OrderInsertColumns ==
  <<"phone", "delivery_address", "submit_time", "items", "total", "user_order_id">>

\* VALUES ($1, $2, $3, $4, $5)
OrderInsertPlaceholders == 5

Order_create(tbl, next, data) ==
  IF ~SqlWhereOk(OrderDuplicateWhere)
  THEN { Outcome(tbl, next, Err("DatabaseError", <<"syntax error">>)) }
  ELSE IF \E r \in tbl : r.user_order_id = data.user_order_id
                         /\ r.submit_time = data.submit_time
  THEN { Outcome(tbl, next, Err("BadRequestError",
                                <<"Duplicate order: ", data.user_order_id, "@", data.submit_time>>)) }
  ELSE IF Len(OrderInsertColumns) # OrderInsertPlaceholders
  THEN { Outcome(tbl, next, Err("DatabaseError", <<"INSERT has more target columns than expressions">>)) }
  ELSE LET row == [id |-> next, phone |-> data.phone,
                   delivery_address |-> data.delivery_address,
                   submit_time |-> data.submit_time, items |-> data.items,
                   total |-> data.total, user_order_id |-> data.user_order_id]
       IN { Outcome(tbl \cup {row}, next + 1, Ok(row)) }

\* The names findAll's body can read: its parameter and its declarations.
OrderFindAllScope ==
  { "searchFilters", "query", "whereExpressions", "queryValues",
    "minTotal", "maxTotal", "user_order_id", "ordersRes" }

\* The names the range check reads.
OrderFindAllRangeCheck == <<"minPrice", "maxPrice">>

OrderWhere(r, f) ==
  /\ "minTotal" \in DOMAIN f => r.total >= f.minTotal
  /\ "maxTotal" \in DOMAIN f => r.total <= f.maxTotal

BySubmitTime(rows) == { p \in rows \X rows : p[1].submit_time <= p[2].submit_time }

Order_findAll(tbl, f) ==
  IF \E i \in 1..Len(OrderFindAllRangeCheck) : OrderFindAllRangeCheck[i] \notin OrderFindAllScope
  THEN { Outcome(tbl, 0, Err("ReferenceError", <<"minPrice is not defined">>)) }
  ELSE IF "minTotal" \in DOMAIN f /\ "maxTotal" \in DOMAIN f /\ f.minTotal > f.maxTotal
  THEN { Outcome(tbl, 0, Err("BadRequestError", <<"Min total cannot be greater than max">>)) }
  ELSE IF "user_order_id" \in DOMAIN f /\ f.user_order_id # 0
  THEN \* user_order_id = '%<id>%' against an INTEGER column
       { Outcome(tbl, 0, Err("DatabaseError", <<"invalid input syntax for type integer">>)) }
  ELSE { Outcome(tbl, 0, Ok(s)) : s \in LET rows == { r \in tbl : OrderWhere(r, f) }
                                     IN OrderBy(rows, BySubmitTime(rows)) }

Order_get(tbl, insectsTbl, id) ==
  LET rows == { r \in tbl : r.id = id }
  IN IF rows = {}
     THEN { Outcome(tbl, 0, Err("NotFoundError", <<"No order: ", id>>)) }
     ELSE { Outcome(tbl, 0, Ok([r EXCEPT !.items = s])) :
              r \in rows, s \in LET found == { i \in insectsTbl : i.id = id }
                                 IN OrderBy(found, BySpecies(found)) }

Order_remove(tbl, id) ==
  LET rows == { r \in tbl : r.id = id }
  IN IF rows = {}
     THEN { Outcome(tbl, 0, Err("NotFoundError", <<"No order: ", id>>)) }
     ELSE { Outcome(tbl \ rows, 0, Ok(NoValue)) }

RECURSIVE TotalCost(_, _)
TotalCost(items, totalCost) ==
  IF items = <<>> THEN totalCost
  ELSE TotalCost(Tail(items), JsAdd(totalCost, Taxed(PriceOf(Head(items)))))

Order_getTotal(tbl, orderId) ==
  LET rows == { r \in tbl : r.id = orderId }
  IN IF rows = {}
     THEN { Outcome(tbl, 0, Err("NotFoundError", <<"No order found with ID: ", orderId>>)) }
     ELSE { Outcome(tbl, 0, Ok(MathRound(TotalCost(r.items, JsNumber(0))))) : r \in rows }

(***************************************************************************)
(* Calls on the Order repository.                                          *)
(***************************************************************************)
OrderIds == 1..2

ItemLists == { <<>>, <<ItemId(1)>>, <<ItemId(2), ItemId(1)>>, <<ItemObject(10), ItemObject(5)>> }

SubmitTimes == { 1, 2 }

TotalValues == { 6, 17 }

OrderData ==
  { [phone |-> "555", delivery_address |-> "addr", submit_time |-> t, items |-> it,
     total |-> tot, user_order_id |-> 1] :
      t \in SubmitTimes, it \in { <<ItemId(1)>> }, tot \in TotalValues }

OrderFilters ==
  { a @@ b @@ c :
      a \in OptField("minTotal", TotalValues),
      b \in OptField("maxTotal", TotalValues),
      c \in OptField("user_order_id", { 1 }) }

OrderCreate ==
  /\ \E data \in OrderData : \E o \in Order_create(orders, nextOrderId, data) :
       /\ orders' = o.tbl
       /\ nextOrderId' = o.next
       /\ last' = Call("Order.create", data, o.res)
  /\ UNCHANGED <<insects, nextInsectId, users, nextUserId, inflight>>

OrderFindAll ==
  /\ \E f \in OrderFilters : \E o \in Order_findAll(orders, f) :
       last' = Call("Order.findAll", f, o.res)
  /\ UNCHANGED <<insects, nextInsectId, users, nextUserId, orders, nextOrderId, inflight>>

OrderGet ==
  /\ \E id \in OrderIds : \E o \in Order_get(orders, insects, id) :
       last' = Call("Order.get", [id |-> id], o.res)
  /\ UNCHANGED <<insects, nextInsectId, users, nextUserId, orders, nextOrderId, inflight>>

OrderRemove ==
  /\ \E id \in OrderIds : \E o \in Order_remove(orders, id) :
       /\ orders' = o.tbl
       /\ last' = Call("Order.remove", [id |-> id], o.res)
  /\ UNCHANGED <<insects, nextInsectId, users, nextUserId, nextOrderId, inflight>>

OrderGetTotal ==
  /\ \E id \in OrderIds : \E o \in Order_getTotal(orders, id) :
       last' = Call("Order.getTotal", [orderId |-> id], o.res)
  /\ UNCHANGED <<insects, nextInsectId, users, nextUserId, orders, nextOrderId, inflight>>

(***************************************************************************)
(* Calls in flight.  Every repository method is an async function: between *)
(* two awaited statements of one call, statements of other calls may run.  *)
(* A call whose statements run with no other call in between is one step   *)
(* (the calls above); the calls below run statement by statement, for the  *)
(* clients that have one in flight, and keep the call's local variables.   *)
(***************************************************************************)
Clients == { "c1", "c2" }

\* pc: the await the call is suspended at ("idle": no call, "done": returned
\* or thrown); rowCount: the length of result.rows of its last statement.
Pending(op, arg, pc, rowCount, res) ==
  [op |-> op, arg |-> arg, pc |-> pc, rowCount |-> rowCount, res |-> res]

IdleCall == Pending("none", NoValue, "idle", 0, Ok(NoValue))

\* Inserts of insects the calls in flight have still to run.
InsertsPending == Cardinality({ c \in Clients : inflight[c].pc = "insert" })

\* Insect.create up to its second await: the duplicate check has run, and the
\* call has thrown or is about to insert.
InsectCreateSelect(c) ==
  /\ inflight[c].pc = "idle"
  /\ \E data \in InsectData :
       LET duplicateCheck == InsectSelectBySpecies(insects, data.species)
       IN IF duplicateCheck # {}
          THEN inflight' = [inflight EXCEPT ![c] =
                 Pending("Insect.create", data, "done", Cardinality(duplicateCheck),
                         InsectDuplicate(data))]
          ELSE /\ InsertsDone + InsertsPending < MaxInserts
               /\ inflight' = [inflight EXCEPT ![c] =
                    Pending("Insect.create", data, "insert", 0, Ok(NoValue))]
  /\ UNCHANGED <<insects, nextInsectId, users, nextUserId, orders, nextOrderId, last>>

\* Insect.create from its second await: the insert runs and the call returns.
InsectCreateInsert(c) ==
  /\ inflight[c].op = "Insect.create"
  /\ inflight[c].pc = "insert"
  /\ \E o \in InsectInsert(insects, nextInsectId, inflight[c].arg) :
       /\ insects' = o.tbl
       /\ nextInsectId' = o.next
       /\ inflight' = [inflight EXCEPT ![c] =
            Pending("Insect.create", inflight[c].arg, "done",
                    Cardinality(o.tbl \ insects), o.res)]
  /\ UNCHANGED <<users, nextUserId, orders, nextOrderId, last>>

\* The client has its answer and may call again.
Return(c) ==
  /\ inflight[c].pc = "done"
  /\ inflight' = [inflight EXCEPT ![c] = IdleCall]
  /\ UNCHANGED <<insects, nextInsectId, users, nextUserId, orders, nextOrderId, last>>

\* The remove calls two clients can make of one key at once.
RemoveCalls ==
  { Pending("Insect.remove", [id |-> id], "delete", 0, Ok(NoValue)) : id \in InsectIds }
    \cup { Pending("Order.remove", [id |-> id], "delete", 0, Ok(NoValue)) : id \in OrderIds }
    \cup { Pending("User.remove", [username |-> n], "delete", 0, Ok(NoValue)) :
              n \in UsernameValues }

\* Both clients call remove of the same key while no call is in flight.
RemoveCall ==
  /\ \A c \in Clients : inflight[c].pc = "idle"
  /\ \E call \in RemoveCalls : inflight' = [c \in Clients |-> call]
  /\ UNCHANGED <<insects, nextInsectId, users, nextUserId, orders, nextOrderId, last>>

\* The one statement of Insect.remove, and the throw or return after it.
InsectRemoveStatement(c) ==
  /\ inflight[c].op = "Insect.remove"
  /\ inflight[c].pc = "delete"
  /\ \E o \in Insect_remove(insects, inflight[c].arg.id) :
       /\ insects' = o.tbl
       /\ inflight' = [inflight EXCEPT ![c] =
            Pending("Insect.remove", inflight[c].arg, "done",
                    Cardinality(insects \ o.tbl), o.res)]
  /\ UNCHANGED <<nextInsectId, users, nextUserId, orders, nextOrderId, last>>

OrderRemoveStatement(c) ==
  /\ inflight[c].op = "Order.remove"
  /\ inflight[c].pc = "delete"
  /\ \E o \in Order_remove(orders, inflight[c].arg.id) :
       /\ orders' = o.tbl
       /\ inflight' = [inflight EXCEPT ![c] =
            Pending("Order.remove", inflight[c].arg, "done",
                    Cardinality(orders \ o.tbl), o.res)]
  /\ UNCHANGED <<insects, nextInsectId, users, nextUserId, nextOrderId, last>>

UserRemoveStatement(c) ==
  /\ inflight[c].op = "User.remove"
  /\ inflight[c].pc = "delete"
  /\ \E o \in User_remove(users, inflight[c].arg.username) :
       /\ users' = o.tbl
       /\ inflight' = [inflight EXCEPT ![c] =
            Pending("User.remove", inflight[c].arg, "done",
                    Cardinality(users \ o.tbl), o.res)]
  /\ UNCHANGED <<insects, nextInsectId, nextUserId, orders, nextOrderId, last>>

(***************************************************************************)
(* The system.                                                             *)
(***************************************************************************)
Init ==
  /\ insects = {}
  /\ nextInsectId = 1
  /\ users = {}
  /\ nextUserId = 1
  /\ orders = {}
  /\ nextOrderId = 1
  /\ last = Call("none", NoValue, Ok(NoValue))
  /\ inflight = [c \in Clients |-> IdleCall]

Next ==
  \/ InsectCreate
  \/ InsectGet
  \/ InsectUpdate
  \/ InsectRemove
  \/ UserRegister
  \/ UserAuthenticate
  \/ UserGet
  \/ UserUpdate
  \/ UserRemove

\* The searches of the two repositories, over the tables create and register fill.
NextFind ==
  \/ InsectCreate
  \/ InsectFindAll
  \/ UserRegister
  \/ UserFindAll

Spec == Init /\ [][Next]_vars

SpecFind == Init /\ [][NextFind]_vars

\* The Order repository over a store that holds two insects (two creates) and
\* any order rows of the schema: Order.create never inserts, so the rows of
\* orders are those the table holds when the repository is first called.
OrderRows(id) ==
  { [id |-> id, phone |-> "555", delivery_address |-> "addr", submit_time |-> t,
     items |-> it, total |-> tot, user_order_id |-> 1] :
      t \in SubmitTimes, it \in ItemLists, tot \in TotalValues }

InitOrders ==
  /\ insects = { [id |-> 1, species |-> <<"A", "b">>, price |-> 10, url_image |-> "u1"],
                 [id |-> 2, species |-> <<"b">>, price |-> 5, url_image |-> "u1"] }
  /\ nextInsectId = 3
  /\ users = {}
  /\ nextUserId = 1
  /\ \E S \in SUBSET OrderIds : \E f \in [S -> UNION { OrderRows(id) : id \in S }] :
       /\ \A id \in S : f[id].id = id
       /\ orders = { f[id] : id \in S }
  /\ nextOrderId = 3
  /\ last = Call("none", NoValue, Ok(NoValue))
  /\ inflight = [c \in Clients |-> IdleCall]

NextOrders ==
  \/ OrderCreate
  \/ OrderFindAll
  \/ OrderGet
  \/ OrderRemove
  \/ OrderGetTotal

SpecOrders == InitOrders /\ [][NextOrders]_vars

\* Insect.create called by two clients at once.
NextCreateRace ==
  \/ \E c \in Clients : InsectCreateSelect(c)
  \/ \E c \in Clients : InsectCreateInsert(c)
  \/ \E c \in Clients : Return(c)

SpecCreateRace == Init /\ [][NextCreateRace]_vars

\* remove called by two clients at once, of a store that creates, registers
\* and updates have filled and that holds any of the order rows below.
OrderRow(id) ==
  [id |-> id, phone |-> "555", delivery_address |-> "addr", submit_time |-> 1,
   items |-> <<>>, total |-> 0, user_order_id |-> 1]

InitRemoveRace ==
  /\ insects = {}
  /\ nextInsectId = 1
  /\ users = {}
  /\ nextUserId = 1
  /\ \E S \in SUBSET OrderIds : orders = { OrderRow(id) : id \in S }
  /\ nextOrderId = 3
  /\ last = Call("none", NoValue, Ok(NoValue))
  /\ inflight = [c \in Clients |-> IdleCall]

NoCallInFlight == \A c \in Clients : inflight[c].pc = "idle"

NextRemoveRace ==
  \/ NoCallInFlight /\ InsectCreate
  \/ NoCallInFlight /\ UserRegister
  \/ NoCallInFlight /\ UserUpdate
  \/ RemoveCall
  \/ \E c \in Clients : InsectRemoveStatement(c)
  \/ \E c \in Clients : OrderRemoveStatement(c)
  \/ \E c \in Clients : UserRemoveStatement(c)

SpecRemoveRace == InitRemoveRace /\ [][NextRemoveRace]_vars

(***************************************************************************)
(* Properties.                                                             *)
(***************************************************************************)
Failed(call) == call.res.err # "none"

InsectIdsOf(tbl) == { r.id : r \in tbl }

\* C1: Insect.create fails with the duplicate error (BadRequestError) and adds
\* no row when a row of the same species is stored; otherwise it inserts
\* exactly one row, under an id no stored row has, and returns it.  A create
\* right after a create of the same species fails.
C1_CreateDuplicateOrInsert ==
  [][ last'.op = "Insect.create" =>
        /\ IF \E r \in insects : r.species = last'.arg.species
           THEN /\ last'.res.err = "BadRequestError"
                /\ insects' = insects
           ELSE /\ last'.res.err = "none"
                /\ last'.res.val \notin insects
                /\ last'.res.val.id \notin InsectIdsOf(insects)
                /\ last'.res.val.id = nextInsectId
                /\ last'.res.val.species = last'.arg.species
                /\ last'.res.val.price = last'.arg.price
                /\ last'.res.val.url_image = last'.arg.url_image
                /\ insects' = insects \cup { last'.res.val }
        /\ (last.op = "Insect.create" /\ last.arg.species = last'.arg.species)
              => last'.res.err = "BadRequestError" ]_vars

\* A create refused as a duplicate while another species is stored too.
C1_Witness ==
  /\ last.op = "Insect.create"
  /\ last.res.err = "BadRequestError"
  /\ Cardinality(insects) = 2
  /\ \E r \in insects : r.species = last.arg.species

\* C2: no two stored user rows have the same username.
C2_UsernamesUnique ==
  \A r1, r2 \in users : r1.username = r2.username => r1 = r2

\* C3: a failed User.authenticate is the same failure (UnauthorizedError, same
\* message) whether the username is unknown or the password is wrong, and a
\* successful one returns exactly {username, email, isAdmin}.
C3_AuthenticateUniformFailure ==
  last.op = "User.authenticate" =>
    IF Failed(last)
    THEN /\ last.res.err = "UnauthorizedError"
         /\ \A n \in UsernameValues, p \in PasswordValues :
              \A o \in User_authenticate(users, n, p) :
                o.res.err # "none" => o.res = last.res
    ELSE DOMAIN last.res.val = { "username", "email", "isAdmin" }

C10_FailedUpdateWritesNothing ==
  [][ (last'.op \in { "Insect.update", "User.update" } /\ Failed(last')) =>
        (insects' = insects /\ users' = users) ]_vars

\* A User.update on a stored username whose statement failed.
C10_Witness ==
  /\ last.op = "User.update"
  /\ last.res.err = "DatabaseError"
  /\ \E r \in users : r.username = last.arg.username
  /\ "username" \in DOMAIN last.arg.data

\* s lists exactly the rows of S, each once.
Lists(s, S) ==
  /\ Len(s) = Cardinality(S)
  /\ { s[i] : i \in 1..Len(s) } = S

\* s contains t, letter case ignored.
ContainsIgnoringCase(s, t) ==
  \E i \in 0..(Len(s) - Len(t)) :
    LowerStr(SubSeq(s, i + 1, i + Len(t))) = LowerStr(t)

\* C4: Order.create fails with the duplicate error (BadRequestError) exactly
\* when an order with the same (user_order_id, submit_time) is stored, and
\* then leaves orders unchanged; otherwise it inserts one row holding the six
\* supplied fields and returns it.
C4_OrderCreateDuplicateOrInsert ==
  [][ last'.op = "Order.create" =>
        IF \E r \in orders : /\ r.user_order_id = last'.arg.user_order_id
                             /\ r.submit_time = last'.arg.submit_time
        THEN /\ last'.res.err = "BadRequestError"
             /\ orders' = orders
        ELSE /\ last'.res.err = "none"
             /\ last'.res.val \notin orders
             /\ orders' = orders \cup { last'.res.val }
             /\ \A k \in DOMAIN last'.arg : last'.res.val[k] = last'.arg[k] ]_vars

\* C5: Order.findAll fails with BadRequestError when minTotal > maxTotal and
\* otherwise returns exactly the stored orders that satisfy every filter that
\* is present, by ascending submit_time.
C5_OrderFindAllFilters ==
  last.op = "Order.findAll" =>
    LET f == last.arg
        Matches(r) ==
          /\ "minTotal" \in DOMAIN f => r.total >= f.minTotal
          /\ "maxTotal" \in DOMAIN f => r.total <= f.maxTotal
          /\ "user_order_id" \in DOMAIN f => r.user_order_id = f.user_order_id
    IN IF "minTotal" \in DOMAIN f /\ "maxTotal" \in DOMAIN f /\ f.minTotal > f.maxTotal
       THEN last.res.err = "BadRequestError"
       ELSE /\ last.res.err = "none"
            /\ Lists(last.res.val, { r \in orders : Matches(r) })
            /\ \A i, j \in 1..Len(last.res.val) :
                 i < j => last.res.val[i].submit_time <= last.res.val[j].submit_time

\* C6: Insect.findAll fails with BadRequestError when minPrice > maxPrice and
\* otherwise returns exactly the stored insects that satisfy every filter that
\* is present (price bounds, species containing the speciesLike value in any
\* letter case), by ascending species; none matching is an empty list.  Stated
\* of the calls whose filters are among minPrice, maxPrice and speciesLike.
C6_InsectFindAllFilters ==
  last.op = "Insect.findAll" =>
    LET f == last.arg
        Matches(r) ==
          /\ "minPrice" \in DOMAIN f => r.price >= f.minPrice
          /\ "maxPrice" \in DOMAIN f => r.price <= f.maxPrice
          /\ "speciesLike" \in DOMAIN f => ContainsIgnoringCase(r.species, f.speciesLike)
    IN IF "species" \in DOMAIN f
       THEN TRUE
       ELSE IF "minPrice" \in DOMAIN f /\ "maxPrice" \in DOMAIN f /\ f.minPrice > f.maxPrice
       THEN last.res.err = "BadRequestError"
       ELSE /\ last.res.err = "none"
            /\ Lists(last.res.val, { r \in insects : Matches(r) })
            /\ \A i, j \in 1..Len(last.res.val) :
                 i < j => StrLeq(last.res.val[i].species, last.res.val[j].species)

\* The insect ids an order's stored items name.
ItemIds(items) == { items[i].v : i \in { j \in 1..Len(items) : items[j].type = "number" } }

\* C7: Order.get of a stored order returns its record with items replaced by
\* the {id, species, price, url_image} rows of the insects whose ids are in the
\* stored items; of an id that is not stored it fails with NotFoundError.
C7_OrderGetItems ==
  last.op = "Order.get" =>
    IF \E r \in orders : r.id = last.arg.id
    THEN LET r == CHOOSE x \in orders : x.id = last.arg.id
         IN /\ last.res.err = "none"
            /\ \A k \in DOMAIN r \ { "items" } : last.res.val[k] = r[k]
            /\ Lists(last.res.val.items, { i \in insects : i.id \in ItemIds(r.items) })
    ELSE last.res.err = "NotFoundError"

\* The price an item of an order stands for: that of the insect it names.
ItemPrice(item) ==
  IF item.type = "number" THEN (CHOOSE i \in insects : i.id = item.v).price ELSE item.v

RECURSIVE TaxedSum(_)
TaxedSum(items) ==
  IF items = <<>> THEN 0 ELSE 11 * ItemPrice(Head(items)) + TaxedSum(Tail(items))

\* C8: Order.getTotal fails with NotFoundError for an order that is not stored;
\* for a stored one it returns the integer nearest to the sum over its items of
\* price * 1.10, and it writes nothing.
C8_GetTotalRoundsTaxedSum ==
  [][ last'.op = "Order.getTotal" =>
        /\ orders' = orders /\ insects' = insects /\ users' = users
        /\ IF \E r \in orders : r.id = last'.arg.orderId
           THEN LET r == CHOOSE x \in orders : x.id = last'.arg.orderId
                IN /\ last'.res.err = "none"
                   /\ last'.res.val = JsNumber(10 * ((TaxedSum(r.items) + 5) \div 10))
           ELSE last'.res.err = "NotFoundError" ]_vars

\* What bcrypt.hash produces: the scheme's prefix, then the digest.
IsBcryptHash(stored) == stored # <<>> /\ Head(stored) = "$2b$"

\* C11: the password column of every stored user row is an output of the hash
\* function, whatever passwords User.register and User.update were given (the
\* empty string included), and the record a successful User.update returns
\* has no password field.
C11_PasswordsHashed ==
  /\ \A r \in users : IsBcryptHash(r.password)
  /\ (last.op = "User.update" /\ ~Failed(last)) =>
       "password" \notin DOMAIN last.res.val

\* The ids the SERIAL sequence of insects has handed out that no stored row has.
RemovedInsectIds == (1..(nextInsectId - 1)) \ InsectIdsOf(insects)

\* C12: a successful Insect.remove(id) leaves no row of that id, an id once
\* removed is removed for good whatever is created, updated or removed later
\* (no generated id is one handed out before), and Insect.get of a removed id
\* fails with NotFoundError; Insect.remove of an id no row has fails with
\* NotFoundError and deletes nothing.
C12_RemovedStaysRemoved ==
  [][ /\ RemovedInsectIds \subseteq RemovedInsectIds'
      /\ \A id \in InsectIdsOf(insects') \ InsectIdsOf(insects) : id >= nextInsectId
      /\ last'.op = "Insect.remove" =>
           IF last'.arg.id \in InsectIdsOf(insects)
           THEN /\ ~Failed(last')
                /\ last'.arg.id \in RemovedInsectIds'
                /\ insects' = { r \in insects : r.id # last'.arg.id }
           ELSE /\ last'.res.err = "NotFoundError"
                /\ insects' = insects
      /\ (last'.op = "Insect.get" /\ last'.arg.id \in RemovedInsectIds) =>
           last'.res.err = "NotFoundError"
    ]_vars

\* An Insect.get of a removed id fails while a row created under a later id
\* is stored.
C12_Witness ==
  /\ last.op = "Insect.get"
  /\ last.res.err = "NotFoundError"
  /\ last.arg.id \in RemovedInsectIds
  /\ \E r \in insects : r.id > last.arg.id

\* C13: a call of Insect.create that found no row of its species when it
\* checked inserts its row and returns it, reporting no error, whatever
\* another call inserted between its check and its insert; so two calls of
\* the same species that both check before either inserts both insert (the
\* state C13_Witness).
C13_CheckedCreateInserts ==
  [][ \A c \in Clients :
        (inflight[c].pc = "insert" /\ inflight'[c].pc = "done") =>
          /\ ~Failed(inflight'[c])
          /\ inflight'[c].res.val.species = inflight[c].arg.species
          /\ inflight'[c].res.val \notin insects
          /\ insects' = insects \cup { inflight'[c].res.val }
    ]_vars

\* Both calls have returned a row, neither an error, and the two rows stored
\* have the same species.
C13_Witness ==
  /\ \A c \in Clients :
       /\ inflight[c].op = "Insect.create"
       /\ inflight[c].pc = "done"
       /\ ~Failed(inflight[c])
       /\ inflight[c].res.val \in insects
  /\ inflight["c1"].res.val # inflight["c2"].res.val
  /\ inflight["c1"].res.val.species = inflight["c2"].res.val.species

\* The stored rows a remove call's key selects.
RowsOfKey(call) ==
  CASE call.op = "Insect.remove" -> { r \in insects : r.id = call.arg.id }
    [] call.op = "Order.remove" -> { r \in orders : r.id = call.arg.id }
    [] call.op = "User.remove" -> { r \in users : r.username = call.arg.username }
    [] OTHER -> {}

\* C14: when two remove calls of the same key, one that rows are stored
\* under, run at once, in every interleaving exactly one of them succeeds,
\* the other fails with NotFoundError, and exactly one row is deleted.
C14_OneRemoveWins ==
  \A c \in Clients : \A d \in Clients \ {c} :
    ( /\ inflight[c].pc = "done"
      /\ inflight[d].pc = "done"
      /\ inflight[c].op \in { "Insect.remove", "Order.remove", "User.remove" }
      /\ inflight[d].op = inflight[c].op
      /\ inflight[d].arg = inflight[c].arg
      /\ inflight[c].rowCount + inflight[d].rowCount > 0 )
    => /\ Failed(inflight[c]) # Failed(inflight[d])
       /\ Failed(inflight[c]) => inflight[c].res.err = "NotFoundError"
       /\ inflight[c].rowCount + inflight[d].rowCount = 1
       /\ RowsOfKey(inflight[c]) = {}

====
